---- MODULE Spec2Model ----
(***************************************************************************)
(* Model of packages/cron/src/jobs/metrics.js: the updateMetrics job.      *)
(*                                                                         *)
(* updateMetrics builds one promise per metric task (each task reads an    *)
(* aggregate from the read-only database roPg and upserts it into the      *)
(* metric table of the read-write database rwPg), hands the array of       *)
(* promises to p-settle, and reduces the settled outcomes into one result. *)
(*                                                                         *)
(* JavaScript values are records tagged by their type in field t, so that  *)
(* values of different JavaScript types can be compared.  JavaScript       *)
(* strings that the code computes on (metric names, categories, String())  *)
(* are sequences of one-character strings.                                 *)
(***************************************************************************)
EXTENDS Integers, Sequences, FiniteSets, Bags, TLC

(***************************************************************************)
(* Bounds of the model.                                                    *)
(***************************************************************************)
\* how many of the configured upload types / pin statuses the run uses
NumUploadTypes == 1
NumPinStatuses == 1
\* MAX_CONCURRENT_QUERIES is drawn from 0..MaxConcurrency
MaxConcurrency == 1
\* database calls that may fail (or return no row) in a run of a database
\* that is up
MaxFaults == 1
\* invocations of updateMetrics in a behaviour of RunsSpec
MaxRuns == 2

(***************************************************************************)
(* JavaScript values.                                                      *)
(***************************************************************************)
Undefined == [t |-> "undefined"]
Null == [t |-> "null"]
Num(n) == [t |-> "number", v |-> n]
Str(s) == [t |-> "string", v |-> s]

\* ToBoolean: what `if (x)` and `x || y` test
Truthy(x) ==
  CASE x.t = "undefined" -> FALSE
    [] x.t = "null" -> FALSE
    [] x.t = "number" -> x.v # 0
    [] x.t = "string" -> x.v # <<>>
    [] OTHER -> TRUE

\* a || b
JsOr(a, b) == IF Truthy(a) THEN a ELSE b

DigitChars == <<"0", "1", "2", "3", "4", "5", "6", "7", "8", "9">>

RECURSIVE Decimal(_)
\* the decimal digits of a natural number
Decimal(n) ==
  IF n < 10 THEN <<DigitChars[n + 1]>>
  ELSE Decimal(n \div 10) \o <<DigitChars[(n % 10) + 1]>>

\* String(x) of a number or null
JsString(x) ==
  CASE x.t = "number" ->
         Str(IF x.v < 0 THEN <<"-">> \o Decimal(-x.v) ELSE Decimal(x.v))
    [] x.t = "null" -> Str(<<"n", "u", "l", "l">>)
    [] x.t = "undefined" ->
         Str(<<"u", "n", "d", "e", "f", "i", "n", "e", "d">>)
    [] OTHER -> x

UpperChars ==
  <<"A", "B", "C", "D", "E", "F", "G", "H", "I", "J", "K", "L", "M",
    "N", "O", "P", "Q", "R", "S", "T", "U", "V", "W", "X", "Y", "Z">>
LowerChars ==
  <<"a", "b", "c", "d", "e", "f", "g", "h", "i", "j", "k", "l", "m",
    "n", "o", "p", "q", "r", "s", "t", "u", "v", "w", "x", "y", "z">>

LowerChar(c) ==
  IF \E k \in DOMAIN UpperChars : UpperChars[k] = c
  THEN LowerChars[CHOOSE k \in DOMAIN UpperChars : UpperChars[k] = c]
  ELSE c

\* the category used as it is written
KeepCase(s) == s

\* s.toLowerCase()
ToLowerCase(s) == [k \in DOMAIN s |-> LowerChar(s[k])]

(***************************************************************************)
(* Configuration imported by metrics.js.                                   *)
(***************************************************************************)
\* The category lists live in api/src/constants.js; the categories here are
\* mixed-case identifiers of the kind the job is configured with.
KnownUploadTypes ==
  << <<"N", "f", "t">>, <<"C", "a", "r">>, <<"B", "l", "o", "b">>,
     <<"M", "u", "l", "t", "i", "p", "a", "r", "t">> >>
KnownPinStatuses ==
  << <<"P", "i", "n", "n", "e", "d">>,
     <<"P", "i", "n", "n", "i", "n", "g">>,
     <<"P", "i", "n", "Q", "u", "e", "u", "e", "d">>,
     <<"P", "i", "n", "E", "r", "r", "o", "r">> >>

UPLOAD_TYPES == SubSeq(KnownUploadTypes, 1, NumUploadTypes)
PIN_STATUSES == SubSeq(KnownPinStatuses, 1, NumPinStatuses)

(***************************************************************************)
(* The metric functions.  Each is the sequence of its stages: a stage      *)
(* awaits one read, throws when the read returned no row, and awaits the   *)
(* upsert of one metric; after the upsert of its last stage the function   *)
(* returns.  asString says that the value written is String(total);        *)
(* returnsQuery says that the function returns the promise of the upsert   *)
(* (`return rwPg.query(...)`) instead of awaiting it and returning nothing.*)
(***************************************************************************)
Stage(sql, params, message, name, asString, returnsQuery) ==
  [sql |-> sql, params |-> params, message |-> message, name |-> name,
   asString |-> asString, returnsQuery |-> returnsQuery]

S_total == <<"_", "t", "o", "t", "a", "l">>
S_users_total == <<"u", "s", "e", "r", "s">> \o S_total
S_content_bytes_total ==
  <<"c", "o", "n", "t", "e", "n", "t", "_", "b", "y", "t", "e", "s">>
    \o S_total
S_uploads == <<"u", "p", "l", "o", "a", "d", "s">>
S_pins == <<"p", "i", "n", "s">>
S_pin_requests_total ==
  <<"p", "i", "n", "_", "r", "e", "q", "u", "e", "s", "t", "s">> \o S_total

updateUsersCount ==
  << Stage("COUNT_USERS", <<>>, <<"no rows returned counting users">>,
           S_users_total, FALSE, FALSE) >>

updateContentRootDagSizeSum ==
  << Stage("SUM_CONTENT_DAG_SIZE", <<>>,
           <<"no rows returned counting users">>,
           S_content_bytes_total, TRUE, FALSE) >>

\* type = <<>> stands for the absent (undefined) option
updateUploadsCount(type) ==
  IF type # <<>>
  THEN << Stage("COUNT_UPLOADS_PER_TYPE", <<type>>,
                <<"no rows returned counting ", type, " uploads">>,
                S_uploads \o <<"_">> \o ToLowerCase(type) \o S_total,
                FALSE, TRUE) >>
  ELSE << Stage("COUNT_UPLOADS", <<>>,
                <<"no rows returned counting uploads">>,
                S_uploads \o S_total, FALSE, TRUE) >>

\* status = <<>> stands for the absent (undefined) option.  The branch for
\* a status does not return: the function goes on to count all the pins.
updatePinsCount(status) ==
  (IF status # <<>>
   THEN << Stage("COUNT_PINS_PER_STATUS", <<status>>,
                 <<"no rows returned counting ", status, " pins">>,
                 S_pins \o <<"_">> \o ToLowerCase(status) \o S_total,
                 FALSE, FALSE) >>
   ELSE << >>)
  \o << Stage("COUNT_PINS", <<>>, <<"no rows returned counting pins">>,
              S_pins \o S_total, FALSE, FALSE) >>

\* the pin requests counted under the name of the pins metric
updatePinRequestsCountAsPins ==
  << Stage("COUNT_PIN_REQUESTS", <<>>,
           <<"no rows returned counting pin requests">>,
           S_pins \o S_total, FALSE, FALSE) >>

updatePinRequestsCount ==
  << Stage("COUNT_PIN_REQUESTS", <<>>,
           <<"no rows returned counting pin requests">>,
           S_pin_requests_total, FALSE, FALSE) >>

\* a call withTimeLog(label, () => fn)
Task(label, stages) == [label |-> label, stages |-> stages]

\* the withTimeLog calls of updateMetrics, in the order of the array
Tasks ==
  << Task(<<"updateUsersCount">>, updateUsersCount),
     Task(<<"updateContentRootDagSizeSum">>, updateContentRootDagSizeSum),
     Task(<<"updateUploadsCount">>, updateUploadsCount(<<>>)) >>
  \o [k \in 1..Len(UPLOAD_TYPES) |->
        Task(<<"updateUploadsCount[", UPLOAD_TYPES[k], "]">>,
             updateUploadsCount(UPLOAD_TYPES[k]))]
  \o << Task(<<"updatePinsCount">>, updatePinsCount(<<>>)) >>
  \o [k \in 1..Len(PIN_STATUSES) |->
        Task(<<"updatePinsCount[", PIN_STATUSES[k], "]">>,
             updatePinsCount(PIN_STATUSES[k]))]
  \o << Task(<<"updatePinRequestsCount">>, updatePinRequestsCount) >>

NTasks == Len(Tasks)
TaskIds == 1..NTasks

(***************************************************************************)
(* State.                                                                  *)
(***************************************************************************)
VARIABLES
  phase,        \* of updateMetrics: "Idle", "Running", "Succeeded", "Failed"
  concurrency,  \* MAX_CONCURRENT_QUERIES
  roDown,       \* the read-only database is down for the whole run
  pc,           \* per task: "idle", "read", "write", "fulfilled", "rejected"
  stage,        \* per task: the stage of its function it is in
  held,         \* per task: the value of the upsert it awaits
  reason,       \* per task: the reason its promise was rejected with
  fulfilment,   \* per task: the value its promise was fulfilled with
  fault,        \* per task: what the databases did to it
  reads,        \* per task: the reads it has issued
  writes,       \* per task: the <<name, value>> upserts it has completed
  faults,       \* database calls that failed or returned no row so far
  metric,       \* the rows of table metric in the read-write database
  debugLog,     \* bag of the lines written with log(...)
  consoleErr,   \* the values written with console.error, in order
  results,      \* the array that `await settle(...)` returned
  thrown,       \* what updateMetrics threw
  outOfOrder,   \* some task settled while an earlier one had not
  now,          \* NOW() of the read-write database
  run,          \* the number of the invocation of updateMetrics
  call          \* PublishSpec: the upserts to execute and how many are done

vars ==
  <<phase, concurrency, roDown, pc, stage, held, reason, fulfilment,
    fault, reads,
    writes, faults, metric, debugLog, consoleErr, results, thrown,
    outOfOrder, now, run, call>>

Terminal == {"Succeeded", "Failed"}

Settled(i) == pc[i] \in {"fulfilled", "rejected"}

\* tasks that have issued their first read and have not completed
InFlight == {i \in TaskIds : pc[i] \in {"read", "write"}}

(***************************************************************************)
(* The databases.                                                          *)
(***************************************************************************)
\* the totals the read-only database may answer a query with (one row)
RoTotals(sql, params) ==
  CASE sql = "COUNT_USERS" -> {Num(3)}
    [] sql = "SUM_CONTENT_DAG_SIZE" -> {Null, Num(1024)}
    [] sql = "COUNT_UPLOADS" -> {Num(7)}
    [] sql = "COUNT_UPLOADS_PER_TYPE" -> {Num(Len(params[1]))}
    [] sql = "COUNT_PINS" -> {Num(10)}
    [] sql = "COUNT_PINS_PER_STATUS" -> {Num(Len(params[1]))}
    [] sql = "COUNT_PIN_REQUESTS" -> {Num(5)}

\* what a database call of task i may be rejected with: an error object of
\* its own, or the value undefined
DbReasons(i, st) == {[t |-> "DbError", task |-> i, stage |-> st], Undefined}

\* new Error(message), thrown by task i
Error(message, i) == [t |-> "Error", message |-> message, task |-> i]

\* a row of table metric
Row(name, value, at) == [name |-> name, value |-> value, updated_at |-> at]

\* the statement without its ON CONFLICT clause: a plain insert
InsertMetric(rows, name, value, at) == rows \cup {Row(name, value, at)}

\* an upsert whose update leaves updated_at as it was
UpsertKeepsTimestamp(rows, name, value, at) ==
  IF \E r \in rows : r.name = name
  THEN {IF r.name = name THEN Row(name, value, r.updated_at) ELSE r :
          r \in rows}
  ELSE rows \cup {Row(name, value, at)}

\* INSERT INTO metric (name, value, updated_at) VALUES ($1, $2, NOW())
\* ON CONFLICT (name) DO UPDATE SET value = $2, updated_at = NOW()
UPDATE_METRIC(rows, name, value, at) ==
  IF \E r \in rows : r.name = name
  THEN {IF r.name = name THEN Row(name, value, at) ELSE r : r \in rows}
  ELSE rows \cup {Row(name, value, at)}

(***************************************************************************)
(* withTimeLog and the metric functions, step by step.                     *)
(***************************************************************************)
\* log(`${name} took: ...ms`)
TookLine(label) == <<label, " took">>

\* withTimeLog without its finally block: the line is logged after a
\* successful await only
FinishLogsOnSuccess(i, p, r) ==
  /\ pc' = [pc EXCEPT ![i] = p]
  /\ reason' =
       [reason EXCEPT ![i] = IF p = "rejected" THEN r ELSE Undefined]
  /\ fulfilment' =
       [fulfilment EXCEPT ![i] = IF p = "fulfilled" THEN r ELSE Undefined]
  /\ debugLog' = IF p = "fulfilled"
                 THEN debugLog (+) SetToBag({TookLine(Tasks[i].label)})
                 ELSE debugLog
  /\ outOfOrder' = (outOfOrder \/ \E j \in 1..(i - 1) : ~Settled(j))

\* the promise of task i settles with r (its value when p is "fulfilled",
\* its reason when p is "rejected"); the finally block of withTimeLog logs
Finish(i, p, r) ==
  /\ pc' = [pc EXCEPT ![i] = p]
  /\ reason' =
       [reason EXCEPT ![i] = IF p = "rejected" THEN r ELSE Undefined]
  /\ fulfilment' =
       [fulfilment EXCEPT ![i] = IF p = "fulfilled" THEN r ELSE Undefined]
  /\ debugLog' = debugLog (+) SetToBag({TookLine(Tasks[i].label)})
  /\ outOfOrder' = (outOfOrder \/ \E j \in 1..(i - 1) : ~Settled(j))

\* a metric function that returns on an empty result instead of throwing
RowsCheckReturns(rows) == IF Len(rows) = 0 THEN "return" ELSE "continue"

\* if (!rows.length) throw new Error(...)
RowsCheck(rows) == IF Len(rows) = 0 THEN "throw" ELSE "continue"

\* the value handed to UPDATE_METRIC: rows[0].total or String(rows[0].total)
MetricValue(st, rows) ==
  IF st.asString THEN JsString(rows[1].total) ELSE rows[1].total

\* the function of task i resumes with the rows of its read
RowsArrive(i, rows) ==
  LET st == Tasks[i].stages[stage[i]]
      check == RowsCheck(rows)
  IN  CASE check = "throw" ->
             /\ Finish(i, "rejected", Error(st.message, i))
             /\ UNCHANGED held
        [] check = "return" ->
             /\ Finish(i, "fulfilled", Undefined)
             /\ UNCHANGED held
        [] OTHER ->
             /\ pc' = [pc EXCEPT ![i] = "write"]
             /\ held' = [held EXCEPT ![i] = MetricValue(st, rows)]
             /\ UNCHANGED <<reason, fulfilment, debugLog, outOfOrder>>

\* what rwPg.query may resolve with: the result object of the statement,
\* or nothing (a client that resolves with undefined)
WriteResults ==
  {[t |-> "object", command |-> "INSERT", rowCount |-> 1, rows |-> <<>>],
   Undefined}

\* what the metric function returns after the upsert of its last stage st
\* resolved with res: res when it returned the promise of the upsert,
\* undefined when it awaited it and fell off its end
Returned(st, res) == IF st.returnsQuery THEN res ELSE Undefined

\* may one more database call go wrong
MayFail == faults < MaxFaults

\* roPg.query(...) of task i settles
ReadReturns(i) ==
  /\ pc[i] = "read"
  /\ LET st == Tasks[i].stages[stage[i]] IN
       \/ /\ ~roDown
          /\ \E total \in RoTotals(st.sql, st.params) :
               RowsArrive(i, <<[total |-> total]>>)
          /\ UNCHANGED <<fault, faults>>
       \/ /\ ~roDown
          /\ MayFail
          /\ RowsArrive(i, <<>>)
          /\ fault' = [fault EXCEPT ![i] = "zeroRows"]
          /\ faults' = faults + 1
       \/ /\ roDown \/ MayFail
          /\ \E r \in DbReasons(i, stage[i]) : Finish(i, "rejected", r)
          /\ fault' = [fault EXCEPT ![i] = "readRejected"]
          /\ faults' = IF roDown THEN faults ELSE faults + 1
          /\ UNCHANGED held
  /\ UNCHANGED <<phase, concurrency, roDown, stage, reads, writes, metric,
                 consoleErr, results, thrown, now, run, call>>

\* rwPg.query(UPDATE_METRIC, [name, value]) of task i settles
WriteReturns(i) ==
  /\ pc[i] = "write"
  /\ LET st == Tasks[i].stages[stage[i]] IN
       \/ /\ metric' = UPDATE_METRIC(metric, st.name, held[i], now)
          /\ writes' = [writes EXCEPT ![i] = Append(@, <<st.name, held[i]>>)]
          /\ held' = [held EXCEPT ![i] = Undefined]
          /\ IF stage[i] < Len(Tasks[i].stages)
             THEN /\ stage' = [stage EXCEPT ![i] = @ + 1]
                  /\ pc' = [pc EXCEPT ![i] = "read"]
                  /\ reads' = [reads EXCEPT ![i] = @ + 1]
                  /\ UNCHANGED <<reason, fulfilment, debugLog, outOfOrder>>
             ELSE /\ \E res \in WriteResults :
                       Finish(i, "fulfilled", Returned(st, res))
                  /\ UNCHANGED <<stage, reads>>
          /\ UNCHANGED <<fault, faults>>
       \/ /\ MayFail
          /\ \E r \in DbReasons(i, stage[i]) : Finish(i, "rejected", r)
          /\ fault' = [fault EXCEPT ![i] = "writeRejected"]
          /\ faults' = faults + 1
          /\ held' = [held EXCEPT ![i] = Undefined]
          /\ UNCHANGED <<metric, writes, stage, reads>>
  /\ UNCHANGED <<phase, concurrency, roDown, consoleErr, results, thrown,
                 now, run, call>>

(***************************************************************************)
(* updateMetrics.                                                          *)
(***************************************************************************)
\* the options object placed before the promises instead of after them
SettleInputOptionsFirst ==
  << [kind |-> "value",
      value |-> [t |-> "object", concurrency |-> concurrency]] >>
  \o [k \in 1..NTasks |-> [kind |-> "promise", task |-> k]]

\* the array literal handed to settle: the promise of every withTimeLog
\* call, then the object { concurrency: MAX_CONCURRENT_QUERIES }
SettleInput ==
  [k \in 1..NTasks |-> [kind |-> "promise", task |-> k]]
  \o << [kind |-> "value",
         value |-> [t |-> "object", concurrency |-> concurrency]] >>

\* a combinator that gives up at the first rejection, as Promise.all does
SettledOrOneRejected ==
  \/ \E i \in TaskIds : pc[i] = "rejected"
  \/ \A i \in TaskIds : Settled(i)

\* a combinator that resolves with the first promise to settle (a race)
AnySettled == \E i \in TaskIds : Settled(i)

\* p-settle resolves once every promise of its array has settled
AllSettled ==
  \A k \in DOMAIN SettleInput :
    SettleInput[k].kind = "promise" => Settled(SettleInput[k].task)

\* p-settle's outcome of one element: a promise is reflected, any other
\* value counts as fulfilled with that value
pReflect(el) ==
  IF el.kind = "promise"
  THEN IF pc[el.task] = "rejected"
       THEN [isFulfilled |-> FALSE, value |-> Undefined,
             reason |-> reason[el.task]]
       ELSE [isFulfilled |-> TRUE, value |-> fulfilment[el.task],
             reason |-> Undefined]
  ELSE [isFulfilled |-> TRUE, value |-> el.value, reason |-> Undefined]

\* settle(array): one outcome per element, in the order of the array
pSettle(array) == [k \in DOMAIN array |-> pReflect(array[k])]

\* no upsert is under test (every specification but PublishSpec)
NoCall == [name |-> <<>>, values |-> <<>>, done |-> 0]

RECURSIVE ReduceLoopLogsFirst(_, _, _, _)
\* a loop that logs a rejection only while no error has been kept yet
ReduceLoopLogsFirst(res, k, error, logged) ==
  IF k > Len(res) THEN [error |-> error, logged |-> logged]
  ELSE IF res[k].isFulfilled
  THEN ReduceLoopLogsFirst(res, k + 1, error, logged)
  ELSE ReduceLoopLogsFirst(res, k + 1, JsOr(error, res[k].reason),
                           IF Truthy(error) THEN logged
                           ELSE Append(logged, res[k].reason))

RECURSIVE ReduceLoop(_, _, _, _)
\* for (const promise of results) { ... } from entry k on
ReduceLoop(res, k, error, logged) ==
  IF k > Len(res) THEN [error |-> error, logged |-> logged]
  ELSE IF res[k].isFulfilled THEN ReduceLoop(res, k + 1, error, logged)
  ELSE ReduceLoop(res, k + 1, JsOr(error, res[k].reason),
                  Append(logged, res[k].reason))

Init ==
  /\ phase = "Idle"
  /\ concurrency \in 0..MaxConcurrency
  /\ roDown \in BOOLEAN
  /\ pc = [i \in TaskIds |-> "idle"]
  /\ stage = [i \in TaskIds |-> 1]
  /\ held = [i \in TaskIds |-> Undefined]
  /\ reason = [i \in TaskIds |-> Undefined]
  /\ fulfilment = [i \in TaskIds |-> Undefined]
  /\ fault = [i \in TaskIds |-> "none"]
  /\ reads = [i \in TaskIds |-> 0]
  /\ writes = [i \in TaskIds |-> <<>>]
  /\ faults = 0
  /\ metric = {}
  /\ debugLog = EmptyBag
  /\ consoleErr = <<>>
  /\ results = <<>>
  /\ thrown = Undefined
  /\ outOfOrder = FALSE
  /\ now = 0
  /\ run = 1
  /\ call = NoCall

\* updateMetrics is called: building the array calls every withTimeLog,
\* and each call runs its metric function up to its first await
Dispatch ==
  /\ phase = "Idle"
  /\ phase' = "Running"
  /\ pc' = [i \in TaskIds |-> "read"]
  /\ reads' = [i \in TaskIds |-> 1]
  /\ UNCHANGED <<concurrency, roDown, stage, held, reason, fulfilment,
    fault, writes,
                 faults, metric, debugLog, consoleErr, results, thrown,
                 outOfOrder, now, run, call>>

\* `await settle(...)` resumes: the loop over the results, then the throw
\* or the final log line
Reduce ==
  /\ phase = "Running"
  /\ AllSettled
  /\ LET res == pSettle(SettleInput)
         out == ReduceLoop(res, 1, Undefined, <<>>)
     IN  /\ results' = res
         /\ consoleErr' = consoleErr \o out.logged
         /\ IF Truthy(out.error)
            THEN /\ thrown' = out.error
                 /\ phase' = "Failed"
                 /\ UNCHANGED debugLog
            ELSE /\ thrown' = Undefined
                 /\ phase' = "Succeeded"
                 /\ debugLog' = debugLog (+) SetToBag({<<"Done">>})
  /\ UNCHANGED <<concurrency, roDown, pc, stage, held, reason, fulfilment,
    fault, reads,
                 writes, faults, metric, outOfOrder, now, run, call>>

Next ==
  \/ Dispatch
  \/ \E i \in TaskIds : ReadReturns(i)
  \/ \E i \in TaskIds : WriteReturns(i)
  \/ Reduce

Spec == Init /\ [][Next]_vars

\* every database call is answered, and the event loop runs what is ready
LiveSpec ==
  /\ Spec
  /\ WF_vars(Dispatch)
  /\ \A i \in TaskIds : WF_vars(ReadReturns(i)) /\ WF_vars(WriteReturns(i))
  /\ WF_vars(Reduce)

(***************************************************************************)
(* Several invocations.  The scheduler calls updateMetrics again after a   *)
(* run has ended: nothing of the run is kept but the rows of table metric, *)
(* and the clock of the database has advanced.  MaxFaults bounds the       *)
(* failing database calls of the whole behaviour.  RunsSpec follows a      *)
(* configuration with a valid limit and a read-only database that is up.   *)
(***************************************************************************)
NextRun ==
  /\ phase \in Terminal
  /\ run < MaxRuns
  /\ phase' = "Idle"
  /\ pc' = [i \in TaskIds |-> "idle"]
  /\ stage' = [i \in TaskIds |-> 1]
  /\ held' = [i \in TaskIds |-> Undefined]
  /\ reason' = [i \in TaskIds |-> Undefined]
  /\ fulfilment' = [i \in TaskIds |-> Undefined]
  /\ fault' = [i \in TaskIds |-> "none"]
  /\ reads' = [i \in TaskIds |-> 0]
  /\ writes' = [i \in TaskIds |-> <<>>]
  /\ debugLog' = EmptyBag
  /\ consoleErr' = <<>>
  /\ results' = <<>>
  /\ thrown' = Undefined
  /\ outOfOrder' = FALSE
  /\ now' = now + 1
  /\ run' = run + 1
  /\ UNCHANGED <<concurrency, roDown, faults, metric, call>>

RunsInit == Init /\ ~roDown /\ concurrency = MaxConcurrency

RunsNext == Next \/ NextRun

RunsSpec == RunsInit /\ [][RunsNext]_vars

(***************************************************************************)
(* The upsert on its own: UPDATE_METRIC executed twice for one name, the   *)
(* clock of the database advancing between the two statements.             *)
(***************************************************************************)
\* the metric names of the run
MetricNames ==
  UNION {{Tasks[i].stages[k].name : k \in DOMAIN Tasks[i].stages} :
           i \in TaskIds}

\* values handed to the upsert
PublishValues == {Num(3), Num(10), JsString(Num(1024))}

\* one name, published with a first and then a second value
PublishCalls ==
  {[name |-> n, values |-> <<v1, v2>>, done |-> 0] :
     n \in MetricNames, v1 \in PublishValues, v2 \in PublishValues}

\* the table before the two statements: empty, or left by an earlier run
PublishStores == {{}, {Row(S_users_total, Num(3), 0)}}

PublishInit ==
  /\ phase = "Idle"
  /\ concurrency = MaxConcurrency
  /\ roDown = FALSE
  /\ pc = [i \in TaskIds |-> "idle"]
  /\ stage = [i \in TaskIds |-> 1]
  /\ held = [i \in TaskIds |-> Undefined]
  /\ reason = [i \in TaskIds |-> Undefined]
  /\ fulfilment = [i \in TaskIds |-> Undefined]
  /\ fault = [i \in TaskIds |-> "none"]
  /\ reads = [i \in TaskIds |-> 0]
  /\ writes = [i \in TaskIds |-> <<>>]
  /\ faults = 0
  /\ metric \in PublishStores
  /\ debugLog = EmptyBag
  /\ consoleErr = <<>>
  /\ results = <<>>
  /\ thrown = Undefined
  /\ outOfOrder = FALSE
  /\ now = 1
  /\ run = 1
  /\ call \in PublishCalls

\* rwPg.query(UPDATE_METRIC, [name, value]) is executed; time passes
Publish ==
  /\ call.done < Len(call.values)
  /\ metric' = UPDATE_METRIC(metric, call.name, call.values[call.done + 1],
                             now)
  /\ now' = now + 1
  /\ call' = [call EXCEPT !.done = @ + 1]
  /\ UNCHANGED <<phase, concurrency, roDown, pc, stage, held, reason, fulfilment,
    fault,
                 reads, writes, faults, debugLog, consoleErr, results,
                 thrown, outOfOrder, run>>

PublishSpec == PublishInit /\ [][Publish]_vars

(***************************************************************************)
(* Properties.                                                             *)

(***************************************************************************)
Rejected == {i \in TaskIds : pc[i] = "rejected"}
Fulfilled == {i \in TaskIds : pc[i] = "fulfilled"}
FirstRejected == CHOOSE i \in Rejected : \A j \in Rejected : i <= j
DoneLogged == BagIn(<<"Done">>, debugLog)

\* the values the upsert of stage st may carry, given what the read-only
\* database answers
StageValues(st) ==
  {MetricValue(st, <<[total |-> x]>>) : x \in RoTotals(st.sql, st.params)}

\* task i has completed the upsert of each of its stages, in order, and the
\* metric table holds those rows
PublishedAll(i) ==
  /\ Len(writes[i]) = Len(Tasks[i].stages)
  /\ \A k \in DOMAIN writes[i] :
       /\ writes[i][k][1] = Tasks[i].stages[k].name
       /\ writes[i][k][2] \in StageValues(Tasks[i].stages[k])
       /\ \E r \in metric :
            r.name = writes[i][k][1] /\ r.value = writes[i][k][2]

\* C1: with a concurrency limit C >= 1, in every state at most C tasks have
\* started (issued their read) and not yet completed.
C1_ConcurrencyCap ==
  concurrency >= 1 => Cardinality(InFlight) <= concurrency

\* C2: task isolation.  When the run has ended, every task was started and
\* has run to completion, and its outcome is decided by its own database
\* calls alone: a task none of whose calls failed is Fulfilled and has
\* published each of its metrics, whatever happened to its siblings, and a
\* task is Rejected only when one of its own calls failed.
C2_TaskIsolation ==
  phase \in Terminal =>
    \A i \in TaskIds :
      /\ reads[i] >= 1
      /\ Settled(i)
      /\ fault[i] = "none" =>
           pc[i] = "fulfilled" /\ results[i].isFulfilled /\ PublishedAll(i)
      /\ pc[i] = "rejected" => fault[i] # "none"

\* a run has ended in which an earlier task failed and a later one succeeded
C2_Witness ==
  /\ phase \in Terminal
  /\ \E i, j \in TaskIds :
       i < j /\ pc[i] = "rejected" /\ pc[j] = "fulfilled" /\ PublishedAll(j)

\* C3: the error updateMetrics raises is the rejection reason of the failed
\* task with the lowest submission index.
C3_FirstFailureRaised ==
  phase = "Failed" => thrown = reason[FirstRejected]

\* C4: the run ends Succeeded, with the completion marker logged, exactly
\* when no outcome is Rejected; with any Rejected outcome it ends Failed and
\* the marker is not logged.
C4_SucceededIffNoneRejected ==
  phase \in Terminal =>
    /\ phase = "Succeeded" <=> \A k \in DOMAIN results : results[k].isFulfilled
    /\ DoneLogged <=> phase = "Succeeded"

\* C5: the outcome list holds exactly one outcome per task built: 5 fixed
\* tasks, one per upload type and one per pin status.
C5_OneOutcomePerTask ==
  phase \in Terminal =>
    Len(results) = 5 + Len(UPLOAD_TYPES) + Len(PIN_STATUSES)

\* C6: whatever the order in which the tasks completed, the i-th entry of
\* the outcome list is the outcome of the i-th submitted task: Fulfilled if
\* it was fulfilled, Rejected with that task's own reason if it was rejected.
C6_OutcomeOrder ==
  phase \in Terminal =>
    \A i \in TaskIds :
      /\ i \in DOMAIN results
      /\ results[i].isFulfilled <=> pc[i] = "fulfilled"
      /\ pc[i] = "rejected" => results[i].reason = reason[i]

\* a run has ended whose tasks completed out of submission order, some
\* rejected and some fulfilled
C6_Witness ==
  /\ phase \in Terminal
  /\ outOfOrder
  /\ Rejected # {}
  /\ Fulfilled # {}

\* C7: with an invalid concurrency limit (C <= 0) the run fails before any
\* task has started: no read is issued, no metric row is written, and the
\* run does not succeed.
C7_InvalidLimitFailsFast ==
  concurrency <= 0 =>
    /\ \A i \in TaskIds : reads[i] = 0 /\ writes[i] = <<>>
    /\ metric = {}
    /\ phase # "Succeeded"

\* C8: a task one of whose reads returned zero rows is Rejected with an
\* error, its outcome in the list is Rejected, and the run ends Failed.
C8_ZeroRowsRejected ==
  \A i \in TaskIds :
    fault[i] = "zeroRows" =>
      /\ pc[i] = "rejected"
      /\ reason[i].t = "Error"
      /\ phase \in Terminal =>
           phase = "Failed" /\ ~results[i].isFulfilled

\* a run has ended in which a read of some task returned zero rows
C8_Witness ==
  /\ phase \in Terminal
  /\ \E i \in TaskIds : fault[i] = "zeroRows"

\* C9: a task that failed because a read returned zero rows, or because a
\* read failed, has written no metric row.
C9_FailedReadWritesNothing ==
  \A i \in TaskIds :
    fault[i] \in {"zeroRows", "readRejected"} => writes[i] = <<>>

\* C10 (reporting): a run in which every task failed ends Failed.
C10_AllFailedReportsFailure ==
  (phase \in Terminal /\ Rejected = TaskIds) => phase = "Failed"

\* C10 (termination): every run that is dispatched reaches a terminal state
\* when every database call is answered.
C10_Terminates == (phase = "Running") ~> (phase \in Terminal)

\* the rejected tasks, in submission order
RejectedInOrder ==
  SelectSeq([k \in TaskIds |-> k], LAMBDA k : pc[k] = "rejected")

\* C11: when the run has ended, console.error was called exactly once for
\* every rejected outcome, with its reason, in submission order, also for
\* the reasons that are not the one thrown.
C11_EveryErrorLogged ==
  phase \in Terminal =>
    consoleErr = [k \in DOMAIN RejectedInOrder |-> reason[RejectedInOrder[k]]]

\* a failed run with two logged reasons, the second not the one thrown
C11_Witness ==
  /\ phase = "Failed"
  /\ Len(consoleErr) >= 2
  /\ thrown = consoleErr[1]
  /\ consoleErr[2] # thrown

\* the names under which a run publishes
ExpectedNames ==
  {S_users_total, S_content_bytes_total, S_uploads \o S_total,
   S_pins \o S_total, S_pin_requests_total}
  \cup {S_uploads \o <<"_">> \o ToLowerCase(UPLOAD_TYPES[k]) \o S_total :
          k \in DOMAIN UPLOAD_TYPES}
  \cup {S_pins \o <<"_">> \o ToLowerCase(PIN_STATUSES[k]) \o S_total :
          k \in DOMAIN PIN_STATUSES}

\* the table holds one row for name n, written in this run with a value
\* that a task of this run read and handed to the upsert
PublishedThisRun(n) ==
  \E r \in metric :
    /\ r.name = n
    /\ r.updated_at = now
    /\ \E i \in TaskIds : \E k \in DOMAIN writes[i] :
         /\ writes[i][k] = <<n, r.value>>
         /\ r.value \in StageValues(Tasks[i].stages[k])

\* C12: a run in which every read returned one row and every write
\* succeeded ends Succeeded, and every metric of the run (the five totals,
\* one per upload type, one per pin status) has a row holding the value
\* read during this run.
C12_AllPublished ==
  (phase \in Terminal /\ \A i \in TaskIds : fault[i] = "none") =>
    /\ phase = "Succeeded"
    /\ \A n \in ExpectedNames : PublishedThisRun(n)

\* a second run has ended with no failed call, over the rows of the first
C12_Witness ==
  /\ run = 2
  /\ phase = "Succeeded"
  /\ \A i \in TaskIds : fault[i] = "none"
  /\ Cardinality(metric) = Cardinality(ExpectedNames)

OneRowPerName ==
  \A r1, r2 \in metric : r1.name = r2.name => r1 = r2

\* every name that has a row keeps a row in the next state
RowsKept == \A r \in metric : \E r2 \in metric' : r2.name = r.name

\* C13: in every state, under any interleaving of the upserts of the tasks
\* and across runs, table metric holds at most one row per name, and no
\* step removes the row of a name.
C13_OneRowPerNameNeverDeleted ==
  [](OneRowPerName) /\ [][RowsKept]_vars

\* in a second run one row has been rewritten in place and another row is
\* still the one the first run left
C13_Witness ==
  /\ run = 2
  /\ \E r1, r2 \in metric : r1.updated_at = now /\ r2.updated_at < now

\* the rows of the name under test
CallRows(rows) == {r \in rows : r.name = call.name}

\* after each publish the name has exactly one row, holding the value of
\* the latest publish
LatestPublished ==
  call.done >= 1 =>
    /\ Cardinality(CallRows(metric)) = 1
    /\ \A r \in CallRows(metric) : r.value = call.values[call.done]

\* the second publish stamps the row later than the first did, changes no
\* other row, and leaves the value as it was when it repeats the value
SecondPublish ==
  (call.done = 1 /\ call'.done = 2) =>
    /\ \A r \in CallRows(metric) : \A r2 \in CallRows(metric') :
         /\ r2.updated_at > r.updated_at
         /\ call.values[1] = call.values[2] => r2.value = r.value
    /\ metric' \ CallRows(metric') = metric \ CallRows(metric)

\* C14: publishing one name twice in sequence, with v1 and then v2, leaves
\* exactly one row for the name, whose value is v2 and whose timestamp is
\* later than the one of the first publish; publishing the same value twice
\* leaves the value that publishing it once left.
C14_UpsertTwice ==
  [](LatestPublished) /\ [][SecondPublish]_vars

\* a name has been published twice with different values
C14_Witness ==
  /\ call.done = 2
  /\ call.values[1] # call.values[2]
  /\ \E r \in metric : r.name = call.name /\ r.value = call.values[2]

\* the timing lines logged so far that carry the label of task i
TookLines(i) == CopiesIn(TookLine(Tasks[i].label), debugLog)

\* C15: for every task, no timing line with its label is logged before it
\* completes and exactly one once it has completed, fulfilled or rejected;
\* a task whose call failed is rejected all the same, and its outcome in
\* the list is Rejected with its reason.
C15_OneTimingLinePerTask ==
  \A i \in TaskIds :
    /\ TookLines(i) = IF Settled(i) THEN 1 ELSE 0
    /\ fault[i] # "none" => pc[i] = "rejected"
    /\ (phase \in Terminal /\ pc[i] = "rejected") =>
         ~results[i].isFulfilled /\ results[i].reason = reason[i]

\* a run has ended with a rejected and a fulfilled task, each with its line
C15_Witness ==
  /\ phase \in Terminal
  /\ \E i, j \in TaskIds :
       /\ pc[i] = "rejected" /\ TookLines(i) = 1
       /\ pc[j] = "fulfilled" /\ TookLines(j) = 1

\* d is the lower-case form of the character c
IsLowerOf(c, d) ==
  IF \E k \in DOMAIN UpperChars : UpperChars[k] = c
  THEN \E k \in DOMAIN UpperChars : UpperChars[k] = c /\ LowerChars[k] = d
  ELSE d = c

\* n is base, "_", the category c in lower case, "_total"
IsCategoryName(n, base, c) ==
  /\ Len(n) = Len(base) + 1 + Len(c) + 6
  /\ SubSeq(n, 1, Len(base)) = base
  /\ n[Len(base) + 1] = "_"
  /\ \A k \in DOMAIN c : IsLowerOf(c[k], n[Len(base) + 1 + k])
  /\ SubSeq(n, Len(base) + Len(c) + 2, Len(n))
       = <<"_", "t", "o", "t", "a", "l">>

\* two categories spell the same word when case is ignored
SameIgnoringCase(c1, c2) ==
  /\ Len(c1) = Len(c2)
  /\ \A k \in DOMAIN c1 :
       \E d \in {c1[k], c2[k]} \cup {LowerChars[j] : j \in DOMAIN LowerChars} :
         IsLowerOf(c1[k], d) /\ IsLowerOf(c2[k], d)

\* the categories the naming is compared on
Categories ==
  {KnownUploadTypes[k] : k \in DOMAIN KnownUploadTypes}
  \cup {KnownPinStatuses[k] : k \in DOMAIN KnownPinStatuses}

\* C16: the task of a category c publishes under base, "_", lower-case c,
\* "_total", with base "uploads" for an upload type and "pins" for a pin
\* status; "Nft" gives "uploads_nft_total"; categories that differ when
\* case is ignored get different names (a fact about the two functions,
\* which does not depend on the run: it is evaluated before the run starts).
C16_CategoryNames ==
  /\ \A i \in TaskIds :
       (Len(Tasks[i].label) = 3 /\ writes[i] # <<>>) =>
         /\ IsCategoryName(
              writes[i][1][1],
              IF Tasks[i].label[1] = "updateUploadsCount[" THEN S_uploads
              ELSE S_pins,
              Tasks[i].label[2])
         /\ Tasks[i].label[2] = <<"N", "f", "t">> =>
              writes[i][1][1] =
                <<"u", "p", "l", "o", "a", "d", "s", "_", "n", "f", "t",
                  "_", "t", "o", "t", "a", "l">>
  /\ phase = "Idle" =>
     \A c1, c2 \in Categories :
       ~SameIgnoringCase(c1, c2) =>
         /\ updateUploadsCount(c1)[1].name # updateUploadsCount(c2)[1].name
         /\ updatePinsCount(c1)[1].name # updatePinsCount(c2)[1].name

\* the task of upload type "Nft" and the task of a pin status have published
C16_Witness ==
  /\ \E i \in TaskIds :
       /\ Tasks[i].label = <<"updateUploadsCount[", <<"N", "f", "t">>, "]">>
       /\ writes[i] # <<>>
  /\ \E i \in TaskIds :
       /\ Len(Tasks[i].label) = 3
       /\ Tasks[i].label[1] = "updatePinsCount["
       /\ writes[i] # <<>>

\* C17: the reduction (error lines, the raised error, the completion marker)
\* starts only after every task has completed: while the run is Running
\* nothing of the reduction has happened, and in a terminal state no task is
\* in flight and no task holds a value it has still to write.
C17_ReduceAfterAllComplete ==
  /\ phase = "Running" =>
       /\ consoleErr = <<>>
       /\ results = <<>>
       /\ thrown = Undefined
       /\ ~DoneLogged
  /\ phase \in Terminal =>
       /\ InFlight = {}
       /\ \A i \in TaskIds : Settled(i) /\ held[i] = Undefined

\* a failed run whose tasks completed out of submission order, one of them
\* after two reads and two writes
C17_Witness ==
  /\ phase = "Failed"
  /\ outOfOrder
  /\ \E i \in TaskIds : Len(writes[i]) = 2

\* the metric names task i has written so far in this run
NamesWritten(i) == {writes[i][k][1] : k \in DOMAIN writes[i]}

\* C18: within one run no metric name is written by two tasks, and a task
\* writes only the one name it is labelled for (pins_total only by
\* updatePinsCount without a status, a per-status task only
\* pins_<status>_total).
C18_OneWriterPerName ==
  /\ \A i, j \in TaskIds : i # j => NamesWritten(i) \cap NamesWritten(j) = {}
  /\ \A i \in TaskIds : NamesWritten(i) \subseteq {Tasks[i].stages[1].name}

\* C19: each task of a run is executed exactly once: once the run has
\* started it has issued its read once, it issues its write at most once, and
\* a task that has failed has issued nothing more.
C19_ExecutedOnce ==
  \A i \in TaskIds :
    /\ phase # "Idle" => reads[i] = 1
    /\ Len(writes[i]) <= 1
    /\ pc[i] = "rejected" => reads[i] + Len(writes[i]) <= 2

\* a number, or the decimal string of a number
IsNumeric(v) ==
  \/ v.t = "number"
  \/ /\ v.t = "string"
     /\ v.v # <<>>
     /\ \A k \in DOMAIN v.v : \E d \in DOMAIN DigitChars : v.v[k] = DigitChars[d]

\* C20: every value a task passes to the metric store is numeric: the value
\* a task holds for its write, every value written, and every stored value
\* is a number or the decimal string of a number (never null or "null").
C20_NumericValues ==
  /\ \A i \in TaskIds :
       /\ pc[i] = "write" => IsNumeric(held[i])
       /\ \A k \in DOMAIN writes[i] : IsNumeric(writes[i][k][2])
  /\ \A r \in metric : IsNumeric(r.value)

====
